---- MODULE Spec2Model ----
(***************************************************************************)
(* A model of the metarelations pipeline:                                  *)
(*   src/mailanalysis.py  parse_mails / parse_datetime                     *)
(*   src/features.py      average_timestamps_in_seconds / weekday_average  *)
(*   src/persistence.py   metric_seconds / obtain_connected_components     *)
(*                                                                         *)
(* The pipeline is a single-threaded batch program whose stages are plain  *)
(* functions.  Each stage is modelled by an operator that computes what    *)
(* the Python function computes, and by an action that applies it to the   *)
(* stage's inputs.  There is one specification per stage (SpecCluster,     *)
(* SpecFeatures, SpecMail, SpecMetric); the variables of the other stages  *)
(* stay at their idle value.                                               *)
(*                                                                         *)
(* Representation.                                                         *)
(*   - Python lists are sequences; a Python dict is a record               *)
(*     [keys |-> <<k1, ..>>, val |-> [k \in {k1, ..} |-> v]], keys being   *)
(*     the dict's iteration (= insertion) order.                           *)
(*   - Floats of the distance matrix and epsilon are fixed-point numbers   *)
(*     in tenths: 5 is 0.5, 10 is 1.0, 20 is 2.0.                          *)
(*   - A string whose characters matter (the From header) is a sequence of *)
(*     one-character strings; a header is <<>> for None, <<s>> for s.      *)
(*   - A call's outcome is a record whose field status is "returned" or    *)
(*     the name of the exception that left the function.                   *)
(***************************************************************************)
EXTENDS Integers, Sequences, FiniteSets, TLC

VARIABLES
    \* obtain_connected_components: its arguments and the calls made so far
    data_collection,    \* <<data_points, identifiers>>
    persistence,        \* [dperm2all |-> matrix], the engine's result object
    cc_history,         \* one record per call: epsilon, matrix before/after, outcome
    \* features.py: the input dict and the two feature dicts
    datetimes_per_sender,
    timestamps_in_seconds,
    average_weekday_per_sender,
    \* parse_mails: the mailbox, the threshold and the call's outcome
    mail,
    THRESHOLD,
    parsed,
    \* metric_seconds: the two arguments and the returned distance
    timestamp_1,
    timestamp_2,
    seconds_distance

vars == <<data_collection, persistence, cc_history,
          datetimes_per_sender, timestamps_in_seconds, average_weekday_per_sender,
          mail, THRESHOLD, parsed,
          timestamp_1, timestamp_2, seconds_distance>>

clusterVars == <<data_collection, persistence, cc_history>>
featureVars == <<datetimes_per_sender, timestamps_in_seconds, average_weekday_per_sender>>
mailVars    == <<mail, THRESHOLD, parsed>>
metricVars  == <<timestamp_1, timestamp_2, seconds_distance>>

\* The value of a result variable before its function has been called.
NotCalled == [status |-> "not called"]

ClusterIdle == data_collection = <<>> /\ persistence = <<>> /\ cc_history = <<>>
FeatureIdle == /\ datetimes_per_sender = <<>>
               /\ timestamps_in_seconds = NotCalled
               /\ average_weekday_per_sender = NotCalled
MailIdle    == mail = <<>> /\ THRESHOLD = 0 /\ parsed = NotCalled
MetricIdle  == timestamp_1 = 0 /\ timestamp_2 = 0 /\ seconds_distance = NotCalled

----------------------------------------------------------------------------
(* Bounds of the model *)

\* largest number of rows of the distance matrix, of data points, of identifiers
MaxN == 3
\* largest number of calls of obtain_connected_components on one persistence object
MaxCalls == 2
\* largest number of senders of datetimes_per_sender
MaxSenders == 2
\* largest number of timestamps of one sender
MaxStamps == 2
\* number of evenly spaced times of day metric_seconds is applied to
TimeGrid == 48
\* largest number of messages of a mailbox
MaxMails == 3
\* largest THRESHOLD
MaxThreshold == 2
\* largest length of a From string drawn from FromAlphabet
MaxFromLen == 4

----------------------------------------------------------------------------
(* Generic helpers *)

Min(S) == CHOOSE x \in S : \A y \in S : x <= y

Range(s) == {s[i] : i \in DOMAIN s}

\* a Python dict with no entries
EmptyDict == [keys |-> <<>>, val |-> <<>>]

\* d[k] = v: a new key goes to the end of the iteration order, an old one stays
DictSet(d, k, v) ==
    [keys |-> IF k \in Range(d.keys) THEN d.keys ELSE Append(d.keys, k),
     val  |-> [x \in Range(d.keys) \cup {k} |-> IF x = k THEN v ELSE d.val[x]]]

----------------------------------------------------------------------------
(* persistence.py: obtain_connected_components *)

\* the floats the thresholding loop writes, in tenths
One == 10
Zero == 0

\* distances the engine's matrix is drawn from (0, 0.5 and 2.0, as in the
\* 3x3 example [[0,0.5,2],[0.5,0,2],[2,2,0]]) and the values of epsilon
DistValues == {0, 5, 20}
Epsilons == {0, 6, 10}

ConsistencyMessage ==
    "Number of data points and number of elements of all connected components are not equal!"

\* The matrices of the persistence engine: n x n, symmetric, zero diagonal
\* (pairwise distances under a metric).
Pairs(n) == {p \in (1..n) \X (1..n) : p[1] < p[2]}

DistanceMatrices(n) ==
    {[i \in 1..n |-> [j \in 1..n |->
        IF i = j THEN 0 ELSE IF i < j THEN f[<<i, j>>] ELSE f[<<j, i>>]]]
     : f \in [Pairs(n) -> DistValues]}

\* Thresholded with "<" in place of "<=": a distance equal to epsilon does
\* not connect
ThresholdedStrict(distance_matrix, eps) ==
    [i \in DOMAIN distance_matrix |-> [j \in DOMAIN distance_matrix[i] |->
        IF distance_matrix[i][j] < eps THEN One ELSE Zero]]

\* lines 204-208: every element <= epsilon becomes 1.0, every other one 0.0.
\* numpy.nditer with op_flags=['readwrite'] writes through to the array it
\* iterates, so this is the new content of persistence['dperm2all'].
Thresholded(distance_matrix, eps) ==
    [i \in DOMAIN distance_matrix |-> [j \in DOMAIN distance_matrix[i] |->
        IF distance_matrix[i][j] <= eps THEN One ELSE Zero]]

\* scipy.sparse.csgraph.connected_components(m, directed=False): a dense
\* matrix's nonzero entries are edges, and an edge in either direction joins.
Adjacent(m, i, j) == m[i][j] # 0 \/ m[j][i] # 0

RECURSIVE Reachable(_, _)
Reachable(m, S) ==
    LET T == S \cup {j \in DOMAIN m : \E i \in S : Adjacent(m, i, j)}
    IN  IF T = S THEN S ELSE Reachable(m, T)

Component(m, i) == Reachable(m, {i})

\* The labels scipy returns: nodes are visited in index order and every
\* node not yet labelled starts the next label, so a node's label is the
\* number of components whose smallest node is smaller than its own
\* component's smallest node.  Labels count from 0, nodes from 1.
ConnectedComponentLabels(m) ==
    LET first == [i \in DOMAIN m |-> Min(Component(m, i))]
        starts == Range(first)
    IN  [i \in DOMAIN m |-> Cardinality({x \in starts : x < first[i]})]

\* GroupByLabel with "connected[entry] = [item]" in place of the append
RECURSIVE GroupByLabelOverwriting(_, _, _)
GroupByLabelOverwriting(labels, items, upto) ==
    IF upto = 0 THEN EmptyDict
    ELSE DictSet(GroupByLabelOverwriting(labels, items, upto - 1),
                 labels[upto], <<items[upto]>>)

\* lines 212-214 for the rows 1..upto: the defaultdict(list) label -> the
\* items of the rows with that label, in row order; keys in insertion order.
RECURSIVE GroupByLabel(_, _, _)
GroupByLabel(labels, items, upto) ==
    IF upto = 0 THEN EmptyDict
    ELSE LET d == GroupByLabel(labels, items, upto - 1)
             l == labels[upto]
             old == IF l \in Range(d.keys) THEN d.val[l] ELSE <<>>
         IN  DictSet(d, l, Append(old, items[upto]))

CCOutcome(status, message, points, ids) ==
    [status |-> status, message |-> message,
     connected_data_points |-> points, connected_identifiers |-> ids]

\* lines 211-219: the check of the label count and the grouping loop.
\* identifiers[i] past the end of the identifier list raises IndexError.
LabelCheck(labels, data_points, identifiers) ==
    IF Len(labels) = Len(data_points)
    THEN IF Len(identifiers) < Len(labels)
         THEN CCOutcome("IndexError", "list index out of range", EmptyDict, EmptyDict)
         ELSE CCOutcome("returned", "",
                        GroupByLabel(labels, data_points, Len(labels)),
                        GroupByLabel(labels, identifiers, Len(labels)))
    ELSE CCOutcome("Exception", ConsistencyMessage, EmptyDict, EmptyDict)

\* The whole call: the matrix it leaves in persistence and its outcome.
obtain_connected_components(dc, pers, eps) ==
    LET data_points == dc[1]
        identifiers == dc[2]
        distance_matrix == Thresholded(pers.dperm2all, eps)
        labels == ConnectedComponentLabels(distance_matrix)
    IN  [dperm2all |-> distance_matrix,
         outcome |-> LabelCheck(labels, data_points, identifiers)]

\* data points and identifiers as a caller hands them over: row i of the
\* feature matrix and the sender of row i
DataPoints(n) == [i \in 1..n |-> <<"row", i>>]
Identifiers(n) == [i \in 1..n |-> <<"sender", i>>]

InitCluster ==
    /\ \E n \in 1..MaxN : \E m \in DistanceMatrices(n) :
           persistence = [dperm2all |-> m]
    /\ \E p \in 1..MaxN, q \in 1..MaxN :
           data_collection = <<DataPoints(p), Identifiers(q)>>
    /\ cc_history = <<>>
    /\ FeatureIdle /\ MailIdle /\ MetricIdle

ObtainConnectedComponents ==
    /\ Len(cc_history) < MaxCalls
    /\ \E eps \in Epsilons :
         LET r == obtain_connected_components(data_collection, persistence, eps)
         IN  /\ persistence' = [persistence EXCEPT !.dperm2all = r.dperm2all]
             /\ cc_history' = Append(cc_history,
                    [epsilon |-> eps,
                     before  |-> persistence.dperm2all,
                     after   |-> r.dperm2all,
                     outcome |-> r.outcome])
    /\ UNCHANGED <<data_collection, featureVars, mailVars, metricVars>>

NextCluster == ObtainConnectedComponents

SpecCluster == InitCluster /\ [][NextCluster]_vars

----------------------------------------------------------------------------
(* Properties of obtain_connected_components *)

\* how often x is a member of a component of the dict d
Occurrences(d, x) ==
    Cardinality({p \in Range(d.keys) \X (1..MaxN + 1) :
                    p[2] \in DOMAIN d.val[p[1]] /\ d.val[p[1]][p[2]] = x})

RECURSIVE SumOfSizes(_, _)
SumOfSizes(d, k) ==
    IF k = 0 THEN 0 ELSE SumOfSizes(d, k - 1) + Len(d.val[d.keys[k]])

TotalSize(d) == SumOfSizes(d, Len(d.keys))

\* the distance matrix, the data points and the identifiers are n of each
ValidClusterInput ==
    /\ Len(data_collection[1]) = Len(persistence.dperm2all)
    /\ Len(data_collection[2]) = Len(persistence.dperm2all)

\* C1: on a distance matrix over n identifiers (with their n data points) and
\* any epsilon >= 0, every call returns components that partition the
\* identifier list: each identifier is a member of exactly one component,
\* exactly once, and the component sizes sum to n.
C1_ComponentsPartitionIdentifiers ==
    ValidClusterInput =>
        \A k \in DOMAIN cc_history :
            LET o == cc_history[k].outcome
                ids == o.connected_identifiers
            IN  /\ cc_history[k].epsilon >= 0
                /\ o.status = "returned"
                /\ \A x \in Range(data_collection[2]) : Occurrences(ids, x) = 1
                /\ TotalSize(ids) = Len(data_collection[2])

\* a call on three identifiers that returned two components, one of them
\* with two members
C1_Witness ==
    /\ ValidClusterInput
    /\ Len(data_collection[2]) = 3
    /\ \E k \in DOMAIN cc_history :
          LET ids == cc_history[k].outcome.connected_identifiers
          IN  /\ cc_history[k].outcome.status = "returned"
              /\ Len(ids.keys) = 2
              /\ \E l \in Range(ids.keys) : Len(ids.val[l]) = 2

\* C2: a call leaves every entry of persistence['dperm2all'] as it was
\* before the call.
C2_MatrixNotMutated ==
    \A k \in DOMAIN cc_history : cc_history[k].after = cc_history[k].before

\* C3: in a sequence of calls with the same data collection, the same
\* persistence object and the same epsilon, every call returns what the
\* first call returned (same labels, same members).
C3_RepeatedCallsAgree ==
    \A k \in DOMAIN cc_history :
        (\A j \in 1..k : cc_history[j].epsilon = cc_history[1].epsilon)
            => cc_history[k].outcome = cc_history[1].outcome

\* the call was handed as many labels as the matrix has rows
LabelCount(call) == Len(call.before)

Labelled(d, x) == \E l \in Range(d.keys) : x \in Range(d.val[l])

\* C9: whenever the number of labelled points differs from the
\* number of identifiers the call aborts with the consistency error and
\* returns no components; no call returns with an identifier unlabelled,
\* and no call fails with another error.
C9_MismatchWithIdentifiersAborts ==
    \A k \in DOMAIN cc_history :
        LET o == cc_history[k].outcome
        IN  /\ LabelCount(cc_history[k]) # Len(data_collection[2]) =>
                    /\ o.status = "Exception"
                    /\ o.message = ConsistencyMessage
                    /\ o.connected_identifiers = EmptyDict
            /\ o.status = "returned" =>
                    \A x \in Range(data_collection[2]) :
                        Labelled(o.connected_identifiers, x)
            /\ o.status \in {"returned", "Exception"}

\* the matrix is square, symmetric and has a zero diagonal
SymmetricZeroDiagonal(m) ==
    \A i \in DOMAIN m :
        /\ DOMAIN m[i] = DOMAIN m
        /\ m[i][i] = 0
        /\ \A j \in DOMAIN m : m[i][j] = m[j][i]

\* the rows that a path from a row of S reaches, every step of the path
\* between two rows whose distance is at most eps
RECURSIVE WithinEpsilonOf(_, _, _)
WithinEpsilonOf(m, eps, S) ==
    LET T == S \cup {j \in DOMAIN m : \E i \in S : m[i][j] <= eps}
    IN  IF T = S THEN S ELSE WithinEpsilonOf(m, eps, T)

\* the labels (keys) under which the dict d lists x
LabelsOf(d, x) == {l \in Range(d.keys) : x \in Range(d.val[l])}

\* the 3x3 example [[0,0.5,2],[0.5,0,2],[2,2,0]]
ScenarioCMatrix == <<<<0, 5, 20>>, <<5, 0, 20>>, <<20, 20, 0>>>>

\* C11: on a symmetric zero-diagonal distance matrix over the identifiers,
\* two identifiers get the same label exactly when a path joins them whose
\* every step has a distance <= epsilon (a distance equal to epsilon
\* connects); the matrix [[0,0.5,2],[0.5,0,2],[2,2,0]] with epsilon 0.6
\* gives the components {0,1} and {2}.
C11_ComponentsOfEpsilonGraph ==
    ValidClusterInput =>
        \A k \in DOMAIN cc_history :
            LET m == cc_history[k].before
                eps == cc_history[k].epsilon
                ids == cc_history[k].outcome.connected_identifiers
                identifiers == data_collection[2]
            IN  (SymmetricZeroDiagonal(m) /\ eps >= 0) =>
                    /\ cc_history[k].outcome.status = "returned"
                    /\ \A i, j \in DOMAIN m :
                           (LabelsOf(ids, identifiers[i]) = LabelsOf(ids, identifiers[j]))
                               <=> j \in WithinEpsilonOf(m, eps, {i})
                    /\ (m = ScenarioCMatrix /\ eps = 6) =>
                           /\ ids.keys = <<0, 1>>
                           /\ ids.val[0] = <<identifiers[1], identifiers[2]>>
                           /\ ids.val[1] = <<identifiers[3]>>

\* the 3x3 example was clustered at epsilon 0.6 and gave two components,
\* the first two identifiers joined by a path and the third alone
C11_Witness ==
    /\ ValidClusterInput
    /\ cc_history # <<>>
    /\ cc_history[1].before = ScenarioCMatrix
    /\ cc_history[1].epsilon = 6
    /\ cc_history[1].outcome.status = "returned"
    /\ Len(cc_history[1].outcome.connected_identifiers.keys) = 2
    /\ 2 \in WithinEpsilonOf(ScenarioCMatrix, 6, {1})
    /\ 3 \notin WithinEpsilonOf(ScenarioCMatrix, 6, {1})

----------------------------------------------------------------------------
(* datetime.datetime values *)

Datetime(y, mo, d, h, mi, s) ==
    [year |-> y, month |-> mo, day |-> d, hour |-> h, minute |-> mi, second |-> s]

IsLeap(y) == y % 4 = 0 /\ (y % 100 # 0 \/ y % 400 = 0)

DaysBeforeMonth(y, m) ==
    <<0, 31, 59, 90, 120, 151, 181, 212, 243, 273, 304, 334>>[m]
        + (IF m > 2 /\ IsLeap(y) THEN 1 ELSE 0)

\* date.toordinal(): 1 for 0001-01-01
ToOrdinal(t) ==
    (t.year - 1) * 365 + ((t.year - 1) \div 4) - ((t.year - 1) \div 100)
        + ((t.year - 1) \div 400) + DaysBeforeMonth(t.year, t.month) + t.day

\* datetime.weekday(): Monday is 0, Sunday is 6
Weekday(t) == (ToOrdinal(t) + 6) % 7

\* Python's round(num / den) for integers num >= 0, den > 0: the nearest
\* integer, a tie going to the even one
Round(num, den) ==
    LET q == num \div den
        r == num % den
    IN  IF 2 * r < den THEN q
        ELSE IF 2 * r > den THEN q + 1
        ELSE IF q % 2 = 0 THEN q ELSE q + 1

----------------------------------------------------------------------------
(* features.py *)

\* line 49
SecondsOfTimestamp(t) == t.hour * 3600 + t.minute * 60 + t.second

\* lines 48-50: the inner loop adds every timestamp of the list to the total
\* it is handed
RECURSIVE AddSeconds(_, _, _)
AddSeconds(seconds_total, stamps, upto) ==
    IF upto = 0 THEN seconds_total
    ELSE AddSeconds(seconds_total, stamps, upto - 1) + SecondsOfTimestamp(stamps[upto])

\* lines 43-52, the outer loop over the first upto senders: seconds_total is
\* set to 0 once, before the loop (line 43), and carried from one sender to
\* the next.
RECURSIVE AverageLoop(_, _)
AverageLoop(dps, upto) ==
    IF upto = 0 THEN [seconds_total |-> 0, timestamps_in_seconds |-> EmptyDict]
    ELSE LET prev == AverageLoop(dps, upto - 1)
             sender == dps.keys[upto]
             number_of_timestamps == Len(dps.val[sender])
             total == AddSeconds(prev.seconds_total, dps.val[sender],
                                 number_of_timestamps)
         IN  [seconds_total |-> total,
              timestamps_in_seconds |->
                  DictSet(prev.timestamps_in_seconds, sender,
                          Round(total, number_of_timestamps))]

average_timestamps_in_seconds(dps) ==
    AverageLoop(dps, Len(dps.keys)).timestamps_in_seconds

RECURSIVE SumWeekdays(_, _)
SumWeekdays(stamps, upto) ==
    IF upto = 0 THEN 0 ELSE SumWeekdays(stamps, upto - 1) + Weekday(stamps[upto])

\* lines 68-75
RECURSIVE WeekdayLoop(_, _)
WeekdayLoop(dps, upto) ==
    IF upto = 0 THEN EmptyDict
    ELSE LET sender == dps.keys[upto]
             datum_count == Len(dps.val[sender])
         IN  DictSet(WeekdayLoop(dps, upto - 1), sender,
                     Round(SumWeekdays(dps.val[sender], datum_count), datum_count))

weekday_average(dps) == WeekdayLoop(dps, Len(dps.keys))

\* The timestamps the senders' lists are drawn from: Monday 2023-06-05
\* 00:00:00, Thursday 2023-06-08 10:00:00 and Sunday 2023-06-11 23:59:59.
Stamps ==
    {Datetime(2023, 6, 5, 0, 0, 0),
     Datetime(2023, 6, 8, 10, 0, 0),
     Datetime(2023, 6, 11, 23, 59, 59)}

SenderNames == <<"ann@x.org", "bob@x.org", "cy@x.org", "dee@x.org">>

SenderSet == {SenderNames[i] : i \in 1..MaxSenders}

\* the non-empty timestamp lists of at most MaxStamps timestamps
StampLists == UNION {[1..n -> Stamps] : n \in 1..MaxStamps}

\* the orders in which a dict can hold one to MaxSenders senders
KeyOrders ==
    {k \in UNION {[1..n -> SenderSet] : n \in 1..MaxSenders} :
        \A i, j \in DOMAIN k : i # j => k[i] # k[j]}

\* datetimes_per_sender: senders in any order, each with a non-empty list
InitFeatures ==
    /\ \E ks \in KeyOrders : \E v \in [Range(ks) -> StampLists] :
           datetimes_per_sender = [keys |-> ks, val |-> v]
    /\ timestamps_in_seconds = NotCalled
    /\ average_weekday_per_sender = NotCalled
    /\ ClusterIdle /\ MailIdle /\ MetricIdle

\* aggregate_dataframe, lines 23-24
AverageTimestamps ==
    /\ timestamps_in_seconds = NotCalled
    /\ timestamps_in_seconds' = average_timestamps_in_seconds(datetimes_per_sender)
    /\ UNCHANGED <<datetimes_per_sender, average_weekday_per_sender,
                   clusterVars, mailVars, metricVars>>

\* aggregate_dataframe, line 25
WeekdayAverage ==
    /\ timestamps_in_seconds # NotCalled
    /\ average_weekday_per_sender = NotCalled
    /\ average_weekday_per_sender' = weekday_average(datetimes_per_sender)
    /\ UNCHANGED <<datetimes_per_sender, timestamps_in_seconds,
                   clusterVars, mailVars, metricVars>>

NextFeatures == AverageTimestamps \/ WeekdayAverage

SpecFeatures == InitFeatures /\ [][NextFeatures]_vars

----------------------------------------------------------------------------
(* Properties of the features *)

\* C4: every sender's average is round(mean of hour*3600 + minute*60 + second
\* over that sender's own timestamps), whatever other senders the dict holds
\* and in whatever order they are iterated.
C4_AverageOfOwnTimestamps ==
    timestamps_in_seconds # NotCalled =>
        \A sender \in Range(datetimes_per_sender.keys) :
            LET own == datetimes_per_sender.val[sender]
            IN  timestamps_in_seconds.val[sender]
                    = Round(AddSeconds(0, own, Len(own)), Len(own))

\* C5: every sender's average of seconds since midnight is in [0, 86400)
\* and every sender's average weekday is in [0, 6].
C5_FeatureRanges ==
    /\ timestamps_in_seconds # NotCalled =>
           \A sender \in Range(datetimes_per_sender.keys) :
               /\ 0 <= timestamps_in_seconds.val[sender]
               /\ timestamps_in_seconds.val[sender] < 86400
    /\ average_weekday_per_sender # NotCalled =>
           \A sender \in Range(datetimes_per_sender.keys) :
               /\ 0 <= average_weekday_per_sender.val[sender]
               /\ average_weekday_per_sender.val[sender] <= 6

----------------------------------------------------------------------------
(* persistence.py: metric_seconds *)

\* line 60
seconds_per_day == 24 * 60 * 60

\* metric_seconds returning only its first operand, (t1 - t2) % seconds_per_day
metric_seconds_one_way(t1, t2) == (t1 - t2) % seconds_per_day

\* lines 60-62; Python's % with a positive modulus is never negative, as is
\* the % of Integers
metric_seconds(t1, t2) ==
    LET forth == (t1 - t2) % seconds_per_day
        back  == (t2 - t1) % seconds_per_day
    IN  IF forth <= back THEN forth ELSE back

\* times of day in [0, seconds_per_day): an even grid, and the seconds next
\* to midnight and to noon
TimeSamples ==
    {i * (seconds_per_day \div TimeGrid) : i \in 0..(TimeGrid - 1)}
        \cup {0, 1, 43199, 43200, 43201, 86398, 86399}

InitMetric ==
    /\ timestamp_1 \in TimeSamples
    /\ timestamp_2 \in TimeSamples
    /\ seconds_distance = NotCalled
    /\ ClusterIdle /\ FeatureIdle /\ MailIdle

MetricSeconds ==
    /\ seconds_distance = NotCalled
    /\ seconds_distance' =
           [status |-> "returned", value |-> metric_seconds(timestamp_1, timestamp_2)]
    /\ UNCHANGED <<timestamp_1, timestamp_2, clusterVars, featureVars, mailVars>>

NextMetric == MetricSeconds

SpecMetric == InitMetric /\ [][NextMetric]_vars

\* C10: for a, b in [0, 86400) the distance metric_seconds(a, b) equals
\* metric_seconds(b, a), is 0 when a = b, lies in [0, 43200], and is 43200
\* exactly when a and b are half a day (43200 seconds) apart.
C10_CircularTimeDistance ==
    seconds_distance # NotCalled =>
        LET a == timestamp_1
            b == timestamp_2
            d == seconds_distance.value
        IN  /\ a \in 0..86399 /\ b \in 0..86399
            /\ d = metric_seconds(b, a)
            /\ a = b => d = 0
            /\ 0 <= d /\ d <= 43200
            /\ d = 43200 <=> (a - b = 43200 \/ b - a = 43200)

\* the distance of two times half a day apart has been computed, the later
\* one given first
C10_Witness ==
    /\ seconds_distance # NotCalled
    /\ timestamp_1 - timestamp_2 = 43200
    /\ seconds_distance.value = 43200

----------------------------------------------------------------------------
(* Python str operations, on sequences of one-character strings *)

\* x in s, for a one-character x
HasChar(s, x) == \E i \in DOMAIN s : s[i] = x

\* s.find(sub): the 0-based index of the first occurrence of sub, or -1
Find(s, sub) ==
    LET hits == {i \in 0..(Len(s) - Len(sub)) : SubSeq(s, i + 1, i + Len(sub)) = sub}
    IN  IF hits = {} THEN -1 ELSE Min(hits)

\* s[a:b] for 0 <= a and 0 <= b: the characters of the 0-based indices
\* a .. b-1 that exist, none when a >= b
Slice(s, a, b) == SubSeq(s, a + 1, IF b < Len(s) THEN b ELSE Len(s))

\* len(s.split(x)) for a one-character x: one more than the occurrences of x
SplitCount(s, x) == Cardinality({i \in DOMAIN s : s[i] = x}) + 1

\* the upper-case letters of the model's strings; str.lower() leaves every
\* other character of them as it is
LowerChar(c) ==
    CASE c = "A" -> "a" [] c = "N" -> "n" [] c = "X" -> "x" [] OTHER -> c

Lower(s) == [i \in DOMAIN s |-> LowerChar(s[i])]

----------------------------------------------------------------------------
(* mailanalysis.py *)

\* message['From'] and message['Date'] are None or a string: None is <<>>,
\* the string s is <<s>>
None == <<>>
Header(s) == <<s>>

\* "Ann <ann@x.org>"
FromAnnBracketed ==
    <<"A", "n", "n", " ", "<", "a", "n", "n", "@", "x", ".", "o", "r", "g",
      ">">>

\* "ANN@X.org"
FromAnnUpper ==
    <<"A", "N", "N", "@", "X", ".", "o", "r", "g">>

\* "bob@x.org"
FromBob ==
    <<"b", "o", "b", "@", "x", ".", "o", "r", "g">>

\* "bob-at-x.org"
FromNoAt ==
    <<"b", "o", "b", "-", "a", "t", "-", "x", ".", "o", "r", "g">>

\* "a@b@c"
FromTwoAts ==
    <<"a", "@", "b", "@", "c">>

\* "Mon, 5 Jun 2023 10:00:00 +0200"
DateWeekdayOffset ==
    <<"M", "o", "n", ",", " ", "5", " ", "J", "u", "n", " ", "2", "0", "2",
      "3", " ", "1", "0", ":", "0", "0", ":", "0", "0", " ", "+", "0", "2",
      "0", "0">>

\* "8 Jun 2023 10:00 +0200"
DateShortOffset ==
    <<"8", " ", "J", "u", "n", " ", "2", "0", "2", "3", " ", "1", "0", ":",
      "0", "0", " ", "+", "0", "2", "0", "0">>

\* "Sunday"
DateUnparsable ==
    <<"S", "u", "n", "d", "a", "y">>

\* "Mon, 5 Jun 2023 10:00:00"
StrMon5Jun ==
    <<"M", "o", "n", ",", " ", "5", " ", "J", "u", "n", " ", "2", "0", "2",
      "3", " ", "1", "0", ":", "0", "0", ":", "0", "0">>

\* "8 Jun 2023 10:00"
Str8Jun ==
    <<"8", " ", "J", "u", "n", " ", "2", "0", "2", "3", " ", "1", "0", ":",
      "0", "0">>

ParsedOutcome(status, counts, datetimes) ==
    [status |-> status,
     mails_per_address_with_threshold |-> counts,
     datetimes_per_sender_with_threshold |-> datetimes]

\* datetime.datetime.strptime over the four formats of lines 87-88, on the
\* strings the model's Date headers are cut down to: the datetime of the
\* first format that matches, or <<>> when all four raise ValueError.
Strptime(datum) ==
    CASE datum = StrMon5Jun -> <<Datetime(2023, 6, 5, 10, 0, 0)>>
      [] datum = Str8Jun    -> <<Datetime(2023, 6, 8, 10, 0, 0)>>
      [] OTHER              -> <<>>

\* parse_datetime, lines 82-97: <<datetime>>, or <<>> for ValueError.
\* "datum, _ = datum.split(' +')" raises ValueError too when ' +' occurs
\* more than once; datum.strip() on line 84 discards its result.
parse_datetime(datum) ==
    LET at == Find(datum, <<" ", "+">>)
    IN  IF at = -1 THEN Strptime(datum)
        ELSE IF Find(Slice(datum, at + 2, Len(datum)), <<" ", "+">>) # -1 THEN <<>>
        ELSE Strptime(Slice(datum, 0, at))

\* The "continue" conditions of lines 36, 42 and 46 with the count check of
\* line 46 left out
SkippedWithoutCountCheck(message) ==
    \/ message.From = None \/ message.Date = None
    \/ ~HasChar(message.From[1], "@")

\* lines 36-47: the message is passed over
Skipped(message) ==
    \/ message.From = None \/ message.Date = None
    \/ ~HasChar(message.From[1], "@")
    \/ SplitCount(message.From[1], "@") # 2

\* lines 49-51
SenderKey(sender) ==
    Lower(IF HasChar(sender, "<") /\ HasChar(sender, ">")
          THEN Slice(sender, Find(sender, <<" ", "<">>) + 2, Find(sender, <<">">>))
          ELSE sender)

\* line 54
DateString(datum) == Slice(datum, 0, Find(datum, <<":">>) + 6)

\* the threshold test with ">" in place of ">="
AboveThreshold(count, threshold) == count > threshold

\* line 62
MeetsThreshold(count, threshold) == count >= threshold

\* lines 30-57 for the first upto messages: the two defaultdicts, or
\* failed = TRUE once parse_datetime has raised
RECURSIVE MessageLoop(_, _)
MessageLoop(box, upto) ==
    IF upto = 0
    THEN [failed |-> FALSE, mails_per_address |-> EmptyDict,
          datetimes_per_sender |-> EmptyDict]
    ELSE LET prev == MessageLoop(box, upto - 1)
             message == box[upto]
         IN  IF prev.failed \/ Skipped(message) THEN prev
             ELSE LET sender == SenderKey(message.From[1])
                      seen == sender \in Range(prev.mails_per_address.keys)
                      datetime_obj == parse_datetime(DateString(message.Date[1]))
                  IN  IF datetime_obj = <<>>
                      THEN [prev EXCEPT !.failed = TRUE]
                      ELSE [failed |-> FALSE,
                            mails_per_address |->
                                DictSet(prev.mails_per_address, sender,
                                        (IF seen THEN prev.mails_per_address.val[sender]
                                                 ELSE 0) + 1),
                            datetimes_per_sender |->
                                DictSet(prev.datetimes_per_sender, sender,
                                        Append(IF seen
                                               THEN prev.datetimes_per_sender.val[sender]
                                               ELSE <<>>,
                                               datetime_obj[1]))]

\* lines 61-67 for the first upto addresses of mails_per_address
RECURSIVE ThresholdLoop(_, _, _)
ThresholdLoop(loop, threshold, upto) ==
    IF upto = 0 THEN ParsedOutcome("returned", EmptyDict, EmptyDict)
    ELSE LET prev == ThresholdLoop(loop, threshold, upto - 1)
             address == loop.mails_per_address.keys[upto]
         IN  IF MeetsThreshold(loop.mails_per_address.val[address], threshold)
             THEN ParsedOutcome("returned",
                      DictSet(prev.mails_per_address_with_threshold, address,
                              loop.mails_per_address.val[address]),
                      DictSet(prev.datetimes_per_sender_with_threshold, address,
                              loop.datetimes_per_sender.val[address]))
             ELSE prev

parse_mails(box, threshold) ==
    LET loop == MessageLoop(box, Len(box))
    IN  IF loop.failed THEN ParsedOutcome("ValueError", EmptyDict, EmptyDict)
        ELSE ThresholdLoop(loop, threshold, Len(loop.mails_per_address.keys))

Message(from, date) == [From |-> from, Date |-> date]

\* the messages the mailboxes are made of
MessageSamples ==
    {Message(Header(FromAnnBracketed), Header(DateWeekdayOffset)),
     Message(Header(FromAnnUpper), Header(DateShortOffset)),
     Message(Header(FromBob), Header(DateWeekdayOffset)),
     Message(Header(FromBob), Header(DateUnparsable)),
     Message(None, Header(DateWeekdayOffset)),
     Message(Header(FromBob), None),
     Message(Header(FromNoAt), Header(DateUnparsable)),
     Message(Header(FromTwoAts), Header(DateUnparsable))}

\* the characters of the From strings that are enumerated in full
FromAlphabet == {"A", "a", " ", "<", ">", "@"}

FromStrings == UNION {[1..n -> FromAlphabet] : n \in 0..MaxFromLen}

InitMail ==
    /\ \/ /\ mail \in UNION {[1..n -> MessageSamples] : n \in 0..MaxMails}
          /\ THRESHOLD \in 1..MaxThreshold
       \/ /\ \E from \in FromStrings :
                mail = <<Message(Header(from), Header(DateWeekdayOffset))>>
          /\ THRESHOLD = 1
    /\ parsed = NotCalled
    /\ ClusterIdle /\ FeatureIdle /\ MetricIdle

ParseMails ==
    /\ parsed = NotCalled
    /\ parsed' = parse_mails(mail, THRESHOLD)
    /\ UNCHANGED <<mail, THRESHOLD, clusterVars, featureVars, metricVars>>

NextMail == ParseMails

SpecMail == InitMail /\ [][NextMail]_vars

----------------------------------------------------------------------------
(* Properties of parse_mails *)

\* both headers are present and the From string holds exactly one "@": the
\* messages that are not to be skipped
WellFormed(message) ==
    /\ message.From # None
    /\ message.Date # None
    /\ Cardinality({i \in DOMAIN message.From[1] : message.From[1][i] = "@"}) = 1

Accepted == {i \in DOMAIN mail : WellFormed(mail[i])}

DateOf(message) == parse_datetime(DateString(message.Date[1]))

KeyOf(message) == SenderKey(message.From[1])

AcceptedFrom(sender) == {i \in Accepted : KeyOf(mail[i]) = sender}

\* the timestamps of the accepted messages from sender among the first upto
\* messages, in mailbox order
RECURSIVE TimestampsFrom(_, _)
TimestampsFrom(sender, upto) ==
    IF upto = 0 THEN <<>>
    ELSE IF upto \in AcceptedFrom(sender)
         THEN Append(TimestampsFrom(sender, upto - 1), DateOf(mail[upto])[1])
         ELSE TimestampsFrom(sender, upto - 1)

\* C6: when every accepted message has a parseable date and THRESHOLD >= 1,
\* the keys of both returned maps are the normalized senders with at least
\* THRESHOLD accepted messages; the count map holds the number of accepted
\* messages of each, the timestamp map their timestamps in mailbox order.
C6_InclusiveThreshold ==
    (parsed # NotCalled /\ THRESHOLD >= 1
        /\ \A i \in Accepted : DateOf(mail[i]) # <<>>) =>
        LET counts == parsed.mails_per_address_with_threshold
            stamps == parsed.datetimes_per_sender_with_threshold
            kept == {KeyOf(mail[i]) : i \in Accepted}
        IN  /\ parsed.status = "returned"
            /\ stamps.keys = counts.keys
            /\ DOMAIN counts.val = Range(counts.keys)
            /\ DOMAIN stamps.val = Range(counts.keys)
            /\ Range(counts.keys) =
                   {k \in kept : Cardinality(AcceptedFrom(k)) >= THRESHOLD}
            /\ \A k \in Range(counts.keys) :
                   /\ counts.val[k] = Cardinality(AcceptedFrom(k))
                   /\ Len(stamps.val[k]) = Cardinality(AcceptedFrom(k))
                   /\ stamps.val[k] = TimestampsFrom(k, Len(mail))

\* a sender with exactly THRESHOLD = 2 accepted messages was kept and a
\* sender with one accepted message was dropped
C6_Witness ==
    /\ parsed # NotCalled
    /\ parsed.status = "returned"
    /\ THRESHOLD = 2
    /\ \E i, j \in Accepted :
          /\ Cardinality(AcceptedFrom(KeyOf(mail[i]))) = 2
          /\ KeyOf(mail[i]) \in Range(parsed.mails_per_address_with_threshold.keys)
          /\ Cardinality(AcceptedFrom(KeyOf(mail[j]))) = 1
          /\ KeyOf(mail[j]) \notin Range(parsed.mails_per_address_with_threshold.keys)

\* C7: a message without From or Date header, or whose From string holds no
\* or more than one "@", is skipped without raising: the outcome of
\* parse_mails is its outcome on the mailbox without these messages, and it
\* raises only when a message that is not one of these has an unparsable date.
C7_SkipAndContinue ==
    parsed # NotCalled =>
        /\ parsed = parse_mails(SelectSeq(mail, WellFormed), THRESHOLD)
        /\ parsed.status # "returned" => \E i \in Accepted : DateOf(mail[i]) = <<>>

\* a message with two "@" and an unparsable date was skipped and the message
\* after it was counted
C7_Witness ==
    /\ parsed # NotCalled
    /\ parsed.status = "returned"
    /\ \E i, j \in DOMAIN mail :
          /\ i < j
          /\ mail[i] = Message(Header(FromTwoAts), Header(DateUnparsable))
          /\ j \in Accepted
          /\ KeyOf(mail[j]) \in Range(parsed.mails_per_address_with_threshold.keys)

\* the sender key C8 states: the lower-cased text strictly between "<" and
\* ">" when both occur, the lower-cased string otherwise
StatedSenderKey(sender) ==
    Lower(IF HasChar(sender, "<") /\ HasChar(sender, ">")
          THEN Slice(sender, Find(sender, <<"<">>) + 1, Find(sender, <<">">>))
          ELSE sender)

\* C8: the sender keys of the accepted messages are the lower-cased text
\* strictly between "<" and ">" of a From string that holds both, whatever
\* precedes the "<", and the lower-cased From string otherwise.
C8_SenderNormalization ==
    (parsed # NotCalled /\ parsed.status = "returned" /\ THRESHOLD = 1) =>
        Range(parsed.mails_per_address_with_threshold.keys)
            = {StatedSenderKey(mail[i].From[1]) : i \in Accepted}

====
